---------------------------- MODULE Spec2Model ----------------------------
(***************************************************************************)
(* The task result cache of packages/workspace/src/tasks-runner/cache.ts.  *)
(*                                                                         *)
(* The cache root is a directory shared by every process that uses the    *)
(* cache.  For a task hash h it holds the commit marker <h>.commit and    *)
(* the entry directory <h>/ with the files terminalOutput and code and    *)
(* the directory outputs/.  Cache.put and Cache.get are sequences of      *)
(* awaited filesystem calls; every await is a point where another         *)
(* process (or another asynchronous operation of the same process) may    *)
(* run, and where the process may be terminated.  Each awaited call is    *)
(* one action of the model.                                                *)
(***************************************************************************)
EXTENDS Integers, Sequences, FiniteSets, TLC

(***************************************************************************)
(* Bounds of the model.                                                    *)
(***************************************************************************)
\* put calls started in one behaviour of the sequential specification
MaxPuts == 2
\* put calls started in one behaviour of the concurrent specification
MaxConcPuts == 2

(***************************************************************************)
(* Values.                                                                 *)
(***************************************************************************)
Hashes == {"h1", "h2"}

\* Workspace-relative output paths, as sequences of characters; "/" is sep.
P1 == <<"d", "/", "a">>
P2 == <<"d", "-", "a">>
P3 == <<"o">>
OutputPaths == {P1, P2, P3}

\* What a path names: nothing, a file with a content, or a directory with a
\* set of entries.
Absent == [kind |-> "absent", content |-> 0, entries |-> {}]
File(c) == [kind |-> "file", content |-> c, entries |-> {}]
Dir(es) == [kind |-> "dir", content |-> 0, entries |-> es]

Range(s) == {s[i] : i \in 1..Len(s)}

\* A file of the entry directory that holds a string, or is missing.
NoTextFile == [present |-> FALSE, data |-> ""]
TextFile(s) == [present |-> TRUE, data |-> s]
NoCodeFile == [present |-> FALSE, readable |-> FALSE, data |-> <<>>]
CodeFile(s) == [present |-> TRUE, readable |-> TRUE, data |-> s]
\* a code that readFile rejects on (EACCES, EISDIR)
UnreadableCodeFile == [present |-> TRUE, readable |-> FALSE, data |-> <<>>]

\* terminalOutput: string | null
NullArg == [isNull |-> TRUE, text |-> ""]
TextArg(s) == [isNull |-> FALSE, text |-> s]

\* A JavaScript number: an integer or NaN.
Num(n) == [isNaN |-> FALSE, val |-> n]
NaN == [isNaN |-> TRUE, val |-> 0]

(***************************************************************************)
(* code.toString() and Number(<string>), on decimal integers.              *)
(***************************************************************************)
DigitChars == <<"0", "1", "2", "3", "4", "5", "6", "7", "8", "9">>

RECURSIVE Digits(_)
Digits(n) ==
    IF n < 10 THEN <<DigitChars[n + 1]>>
    ELSE Digits(n \div 10) \o <<DigitChars[(n % 10) + 1]>>

\* Number.prototype.toString of an integer
CodeToString(n) == IF n < 0 THEN <<"-">> \o Digits(-n) ELSE Digits(n)

IsDigit(c) == \E d \in 1..10 : DigitChars[d] = c

DigitValue(c) == (CHOOSE d \in 1..10 : DigitChars[d] = c) - 1

RECURSIVE DigitsValue(_)
DigitsValue(s) ==
    IF s = <<>> THEN 0
    ELSE 10 * DigitsValue(SubSeq(s, 1, Len(s) - 1)) + DigitValue(s[Len(s)])

AllDigits(s) == Len(s) > 0 /\ \A i \in 1..Len(s) : IsDigit(s[i])

\* Number(s): the empty string converts to 0, a signed decimal literal to
\* its value, and any other string of the modelled alphabet to NaN.
StrToNumber(s) ==
    IF s = <<>> THEN Num(0)
    ELSE IF AllDigits(s) THEN Num(DigitsValue(s))
    ELSE IF s[1] = "-" /\ AllDigits(Tail(s)) THEN Num(0 - DigitsValue(Tail(s)))
    ELSE IF s[1] = "+" /\ AllDigits(Tail(s)) THEN Num(DigitsValue(Tail(s)))
    ELSE NaN

(***************************************************************************)
(* The entry directory <h>/.                                               *)
(***************************************************************************)
NoOutputs == [p \in OutputPaths |-> Absent]

\* <h>/ does not exist
NoEntry ==
    [exists |-> FALSE, term |-> NoTextFile, outputsDir |-> FALSE,
     outputs |-> NoOutputs, code |-> NoCodeFile]

\* terminalOutput || 'no terminal output': the empty text is replaced too
WrittenTextOr(T) == IF T.isNull \/ T.text = "" THEN "no terminal output" ELSE T.text

\* terminalOutput ?? 'no terminal output'
WrittenText(T) == IF T.isNull THEN "no terminal output" ELSE T.text

\* join(td, 'outputs')
OutputsPath(h) == <<h, "outputs">>

(***************************************************************************)
(* getFileNameWithLatestRecordedHashForOutput(output): the name of the     *)
(* record file of an output under latestOutputsHashes/.                    *)
(***************************************************************************)
\* output.split(sep).join('-')
RECURSIVE Escape(_)
Escape(path) ==
    IF path = <<>> THEN <<>>
    ELSE <<IF Head(path) = "/" THEN "-" ELSE Head(path)>> \o Escape(Tail(path))

RecordName(output) == Escape(output) \o <<".hash">>


(***************************************************************************)
(* The filesystem calls of fs-extra that put makes, as functions of the    *)
(* entry directory e.                                                      *)
(***************************************************************************)
\* A cleanup that removes the files put rewrites and leaves the copied
\* outputs to be found again by the next write.
RemoveTreeKeepOutputs(e) == [NoEntry EXCEPT !.outputs = e.outputs]

\* remove(td): the directory and everything below it
RemoveTree(e) == NoEntry

\* mkdir(td) fails with EEXIST when td exists
CanMkdir(e) == ~e.exists

\* writeFile(join(td, name)) fails with ENOENT when td does not exist
CanWriteIn(e) == e.exists

\* mkdir(join(td, 'outputs'))
CanMkdirOutputs(e) == e.exists /\ ~e.outputsDir

\* ensureDir(directory): creates the directory and every missing parent;
\* fails when the path is taken by a file.  directory is the parent of the
\* cached path for a file and the cached path itself for a directory.
CanEnsureDir(e, f, isFile) == isFile \/ e.outputs[f].kind # "file"

EnsureDirIn(e, f, isFile) ==
    [e EXCEPT !.exists = TRUE,
              !.outputsDir = TRUE,
              !.outputs[f] = IF ~isFile /\ @.kind = "absent" THEN Dir({}) ELSE @]

\* copy(src, dest) on one path: a file replaces a file, a directory is
\* merged into a directory, and a file never replaces a directory or the
\* reverse.
CanCopyNode(dst, src) == dst.kind = "absent" \/ dst.kind = src.kind

CopyNode(dst, src) ==
    IF src.kind = "dir" /\ dst.kind = "dir"
    THEN Dir(dst.entries \cup src.entries)
    ELSE src

\* copy(src, cached) creates the missing parents of cached as well
CopyIn(e, f, src) ==
    [e EXCEPT !.exists = TRUE,
              !.outputsDir = TRUE,
              !.outputs[f] = CopyNode(@, src)]

(***************************************************************************)
(* State.                                                                  *)
(***************************************************************************)
Writers == {"w1", "w2"}

VARIABLES
    ws,        \* the workspace: what each output path names under this.root
    remote,    \* whether options.remoteCache is configured
    marker,    \* marker[h]: <h>.commit exists
    entry,     \* entry[h]: the entry directory <h>/
    wr,        \* wr[w]: the put call of process w: position, arguments, outcome
    rd,        \* the get call: position, locals, outcome
    nputs,     \* put calls started so far
    committed, \* committed[h]: the payload of the put that wrote the marker of h
    records,   \* the files of latestOutputsHashes/: record file name -> hash
    sc,        \* the shouldCopyOutputsFromCache call: arguments and result
    cp         \* the copyFilesFromCache call: position, arguments, outcome

vars == <<ws, remote, marker, entry, wr, rd, nputs, committed, records, sc, cp>>

\* what put and get leave alone
restoreVars == <<records, sc, cp>>

Payload(T, O, C) == [T |-> T, O |-> O, C |-> C]

\* no put wrote the marker
NoPayload == Payload(NullArg, <<>>, -1)

\* What a put with payload p leaves in <h>/ when nothing disturbs it: every
\* declared output that exists in the workspace, copied as it is.
CommittedEntry(p) ==
    [exists |-> TRUE,
     term |-> TextFile(WrittenText(p.T)),
     outputsDir |-> TRUE,
     outputs |-> [f \in OutputPaths |-> IF f \in Range(p.O) THEN ws[f] ELSE Absent],
     code |-> CodeFile(CodeToString(p.C))]

\* Whether <h>/ as it is holds a terminalOutput, a code and an output path
\* that a put with payload p does not write: what an earlier write leaves
\* for this one to clean up.
Residue(e, p) ==
    /\ e.term.present /\ e.term.data # WrittenText(p.T)
    /\ e.code.present /\ e.code.data # CodeToString(p.C)
    /\ \E f \in OutputPaths : e.outputs[f].kind # "absent" /\ f \notin Range(p.O)

\* no put call was made.  Beside the position, the arguments and the outcome
\* of the call: at, the awaited call that rejected; stored, whether
\* remoteCache.store was called; residue, see Residue.
IdleWriter ==
    [pc |-> "idle", h |-> "h1", T |-> NullArg, O |-> <<>>, C |-> 0, i |-> 1,
     out |-> "none", at |-> "none", stored |-> FALSE, residue |-> FALSE]

\* getFromLocalDir returns null
Null == [hit |-> FALSE, terminalOutput |-> "", outputsPath |-> <<>>, code |-> Num(0)]
Hit(t, path, c) == [hit |-> TRUE, terminalOutput |-> t, outputsPath |-> path, code |-> c]

IdleReader ==
    [pc |-> "idle", h |-> "h1", phase |-> 1, terminalOutput |-> "",
     res1 |-> Null, res |-> Null, nRetrieve |-> 0, nLookup |-> 0,
     retrieved |-> "no"]

\* The workspaces a behaviour starts with.
Workspaces ==
    {(P1 :> File(1) @@ P2 :> Dir({"x", "y"}) @@ P3 :> Absent),
     (P1 :> Dir({"x"}) @@ P2 :> Absent @@ P3 :> Absent),
     (P1 :> Absent @@ P2 :> File(2) @@ P3 :> Absent)}

\* latestOutputsHashes/ holds no record
NoHash == "none"
RecordNames == {RecordName(f) : f \in OutputPaths}
NoRecords == [n \in RecordNames |-> NoHash]

\* no shouldCopyOutputsFromCache call was made
IdleCheck == [pc |-> "idle", h |-> "h1", outputs |-> <<>>, result |-> "none"]

\* no copyFilesFromCache call was made. Beside the position and the
\* arguments of the call: kept, the outputs (by index) whose record the call
\* failed to unlink; failed, those whose record it failed to write; wrote,
\* the record files it wrote; at, where it was when it raised or was
\* interrupted; calls, the calls made so far; first, the workspace and the
\* records that the first completed call left, and its failed.
IdleCopy ==
    [pc |-> "idle", h |-> "h1", outputs |-> <<>>, i |-> 1, out |-> "none",
     at |-> "none", kept |-> {}, failed |-> {}, wrote |-> {}, calls |-> 0,
     first |-> <<>>]

Init ==
    /\ ws \in Workspaces
    /\ remote \in BOOLEAN
    /\ marker = [h \in Hashes |-> FALSE]
    /\ entry = [h \in Hashes |-> NoEntry]
    /\ wr = [w \in Writers |-> IdleWriter]
    /\ rd = IdleReader
    /\ nputs = 0
    /\ committed = [h \in Hashes |-> NoPayload]
    /\ records = NoRecords
    /\ sc = IdleCheck
    /\ cp = IdleCopy

(***************************************************************************)
(* Cache.put(task, terminalOutput, outputs, code), one awaited call at a   *)
(* time.                                                                   *)
(***************************************************************************)
\* a step that writes under the entry directory of one fixed hash
SetEntryOfFirstHash(w, e) == entry' = [entry EXCEPT !["h1"] = e]

\* the step of w changes the entry of its hash to e
SetEntry(w, e) == entry' = [entry EXCEPT ![wr[w].h] = e]

\* w goes on with the call at pc
Goto(w, pc) == wr' = [wr EXCEPT ![w].pc = pc]

\* the awaited call rejects: put raises to its caller
Raise(w) ==
    wr' = [wr EXCEPT ![w].pc = "idle", ![w].out = "raised", ![w].at = wr[w].pc]

PutStart(w, h, T, O, C) ==
    /\ wr[w].pc = "idle"
    /\ wr' = [wr EXCEPT ![w] = [pc |-> "rmCommit", h |-> h, T |-> T, O |-> O,
                                 C |-> C, i |-> 1, out |-> "none",
                                 at |-> "none", stored |-> FALSE,
                                 residue |-> Residue(entry[h], Payload(T, O, C))]]
    /\ nputs' = nputs + 1
    /\ UNCHANGED <<ws, remote, marker, entry, committed, restoreVars>>

\* a put that goes on to remove(td) with the old marker still in place
RmCommitSkipped(w) ==
    /\ wr[w].pc = "rmCommit"
    /\ Goto(w, "rmDir")
    /\ UNCHANGED <<ws, remote, marker, entry, rd, nputs, committed, restoreVars>>

\* await remove(tdCommit)
RmCommit(w) ==
    /\ wr[w].pc = "rmCommit"
    /\ marker' = [marker EXCEPT ![wr[w].h] = FALSE]
    /\ committed' = [committed EXCEPT ![wr[w].h] = NoPayload]
    /\ Goto(w, "rmDir")
    /\ UNCHANGED <<ws, remote, entry, rd, nputs, restoreVars>>

\* await remove(td)
RmDir(w) ==
    /\ wr[w].pc = "rmDir"
    /\ SetEntry(w, RemoveTree(entry[wr[w].h]))
    /\ Goto(w, "mkdir")
    /\ UNCHANGED <<ws, remote, marker, rd, nputs, committed, restoreVars>>

\* await mkdir(td)
Mkdir(w) ==
    /\ wr[w].pc = "mkdir"
    /\ IF CanMkdir(entry[wr[w].h])
       THEN /\ SetEntry(w, [entry[wr[w].h] EXCEPT !.exists = TRUE])
            /\ Goto(w, "writeTerm")
       ELSE /\ Raise(w)
            /\ UNCHANGED entry
    /\ UNCHANGED <<ws, remote, marker, rd, nputs, committed, restoreVars>>

\* await writeFile(join(td, 'terminalOutput'), terminalOutput ?? 'no terminal output')
WriteTerm(w) ==
    /\ wr[w].pc = "writeTerm"
    /\ IF CanWriteIn(entry[wr[w].h])
       THEN /\ SetEntry(w, [entry[wr[w].h] EXCEPT
                               !.term = TextFile(WrittenText(wr[w].T))])
            /\ Goto(w, "mkdirOutputs")
       ELSE /\ Raise(w)
            /\ UNCHANGED entry
    /\ UNCHANGED <<ws, remote, marker, rd, nputs, committed, restoreVars>>

\* await mkdir(join(td, 'outputs'))
MkdirOutputs(w) ==
    /\ wr[w].pc = "mkdirOutputs"
    /\ IF CanMkdirOutputs(entry[wr[w].h])
       THEN /\ SetEntry(w, [entry[wr[w].h] EXCEPT !.outputsDir = TRUE])
            /\ Goto(w, "stat")
       ELSE /\ Raise(w)
            /\ UNCHANGED entry
    /\ UNCHANGED <<ws, remote, marker, rd, nputs, committed, restoreVars>>

\* a loop that goes on to ensureDir and copy for every declared output
StatNoSkip(w) ==
    /\ wr[w].pc = "stat"
    /\ IF wr[w].i > Len(wr[w].O)
       THEN Goto(w, "writeCode")
       ELSE Goto(w, "ensureDir")
    /\ UNCHANGED <<ws, remote, marker, entry, rd, nputs, committed, restoreVars>>

\* for (const f of outputs): if (await existsAsync(src)), with the lstat of
\* src that follows it; after the last output the loop is left
Stat(w) ==
    /\ wr[w].pc = "stat"
    /\ IF wr[w].i > Len(wr[w].O)
       THEN Goto(w, "writeCode")
       ELSE IF ws[wr[w].O[wr[w].i]].kind = "absent"
            THEN wr' = [wr EXCEPT ![w].i = @ + 1]
            ELSE Goto(w, "ensureDir")
    /\ UNCHANGED <<ws, remote, marker, entry, rd, nputs, committed, restoreVars>>

\* await ensureDir(directory)
EnsureDir(w) ==
    /\ wr[w].pc = "ensureDir"
    /\ LET f == wr[w].O[wr[w].i]
           isFile == ws[f].kind = "file"
       IN IF CanEnsureDir(entry[wr[w].h], f, isFile)
          THEN /\ SetEntry(w, EnsureDirIn(entry[wr[w].h], f, isFile))
               /\ Goto(w, "copy")
          ELSE /\ Raise(w)
               /\ UNCHANGED entry
    /\ UNCHANGED <<ws, remote, marker, rd, nputs, committed, restoreVars>>

\* await copy(src, cached)
Copy(w) ==
    /\ wr[w].pc = "copy"
    /\ LET f == wr[w].O[wr[w].i]
       IN IF CanCopyNode(entry[wr[w].h].outputs[f], ws[f])
          THEN /\ SetEntry(w, CopyIn(entry[wr[w].h], f, ws[f]))
               /\ wr' = [wr EXCEPT ![w].pc = "stat", ![w].i = @ + 1]
          ELSE /\ Raise(w)
               /\ UNCHANGED entry
    /\ UNCHANGED <<ws, remote, marker, rd, nputs, committed, restoreVars>>

\* a put that writes the marker where it should write the code
WriteCodeAsCommit(w) ==
    /\ wr[w].pc = "writeCode"
    /\ marker' = [marker EXCEPT ![wr[w].h] = TRUE]
    /\ Goto(w, "writeCommit")
    /\ UNCHANGED <<ws, remote, entry, rd, nputs, committed, restoreVars>>

\* await writeFile(join(td, 'code'), code.toString())
WriteCode(w) ==
    /\ wr[w].pc = "writeCode"
    /\ IF CanWriteIn(entry[wr[w].h])
       THEN /\ SetEntry(w, [entry[wr[w].h] EXCEPT
                               !.code = CodeFile(CodeToString(wr[w].C))])
            /\ Goto(w, "writeCommit")
       ELSE /\ Raise(w)
            /\ UNCHANGED entry
    /\ UNCHANGED <<ws, remote, marker, rd, nputs, committed, restoreVars>>

\* where put goes after the marker is written: if (this.options.remoteCache)
AfterCommit(w) ==
    IF remote
    THEN wr' = [wr EXCEPT ![w].pc = "store", ![w].stored = TRUE]
    ELSE wr' = [wr EXCEPT ![w].pc = "idle", ![w].out = "ok"]

\* await writeFile(tdCommit, 'true')
WriteCommit(w) ==
    /\ wr[w].pc = "writeCommit"
    /\ marker' = [marker EXCEPT ![wr[w].h] = TRUE]
    /\ committed' = [committed EXCEPT ![wr[w].h] = Payload(wr[w].T, wr[w].O, wr[w].C)]
    /\ AfterCommit(w)
    /\ UNCHANGED <<ws, remote, entry, rd, nputs, restoreVars>>

\* await this.options.remoteCache.store(task.hash, this.cachePath) returns
StoreReturn(w) ==
    /\ wr[w].pc = "store"
    /\ wr' = [wr EXCEPT ![w].pc = "idle", ![w].out = "ok"]
    /\ UNCHANGED <<ws, remote, marker, entry, rd, nputs, committed, restoreVars>>

\* any awaited call of put may reject with an I/O error, which put does not
\* catch
PutFail(w) ==
    /\ wr[w].pc # "idle"
    /\ Raise(w)
    /\ UNCHANGED <<ws, remote, marker, entry, rd, nputs, committed, restoreVars>>

\* the process is terminated between two awaited calls
Kill(w) ==
    /\ wr[w].pc # "idle"
    /\ wr' = [wr EXCEPT ![w].pc = "idle", ![w].out = "killed"]
    /\ UNCHANGED <<ws, remote, marker, entry, rd, nputs, committed, restoreVars>>

PutStep(w) ==
    \/ RmCommit(w)
    \/ RmDir(w)
    \/ Mkdir(w)
    \/ WriteTerm(w)
    \/ MkdirOutputs(w)
    \/ Stat(w)
    \/ EnsureDir(w)
    \/ Copy(w)
    \/ WriteCode(w)
    \/ WriteCommit(w)
    \/ StoreReturn(w)
    \/ PutFail(w)

(***************************************************************************)
(* Cache.get(task) and getFromLocalDir(task), one awaited call at a time.  *)
(***************************************************************************)
\* get(task) begins: const res = await this.getFromLocalDir(task)
GetStart(h) ==
    /\ rd.pc \in {"idle", "done", "raised"}
    /\ rd' = [IdleReader EXCEPT !.pc = "exists", !.h = h]
    /\ UNCHANGED <<ws, remote, marker, entry, wr, nputs, committed, restoreVars>>

\* a get that asks the remote store again after every miss
AfterLookupRetrying(r) ==
    IF ~r.hit /\ remote
    THEN [rd EXCEPT !.pc = "retrieve", !.res1 = IF rd.phase = 1 THEN r ELSE @,
                    !.nLookup = @ + 1, !.nRetrieve = @ + 1]
    ELSE [rd EXCEPT !.pc = "done", !.res1 = IF rd.phase = 1 THEN r ELSE @,
                    !.res = r, !.nLookup = @ + 1]

\* What get does with the value r that getFromLocalDir returns: after the
\* first lookup, if (!res && this.options.remoteCache) retrieve is called,
\* else res is returned; the value of the second lookup is returned as it is.
AfterLookup(r) ==
    IF rd.phase = 1
    THEN IF ~r.hit /\ remote
         THEN [rd EXCEPT !.pc = "retrieve", !.res1 = r, !.nLookup = @ + 1,
                         !.nRetrieve = @ + 1]
         ELSE [rd EXCEPT !.pc = "done", !.res1 = r, !.res = r, !.nLookup = @ + 1]
    ELSE [rd EXCEPT !.pc = "done", !.res = r, !.nLookup = @ + 1]

\* if (await existsAsync(tdCommit)) ... else return null
LookupExists ==
    /\ rd.pc = "exists"
    /\ rd' = IF marker[rd.h] THEN [rd EXCEPT !.pc = "readTerm"] ELSE AfterLookup(Null)
    /\ UNCHANGED <<ws, remote, marker, entry, wr, nputs, committed, restoreVars>>

\* await readFile(join(td, 'terminalOutput'), 'utf-8'): not in a try, so a
\* missing file makes getFromLocalDir, and get, raise
LookupReadTerm ==
    /\ rd.pc = "readTerm"
    /\ rd' = IF entry[rd.h].term.present
             THEN [rd EXCEPT !.pc = "readCode",
                             !.terminalOutput = entry[rd.h].term.data]
             ELSE [rd EXCEPT !.pc = "raised"]
    /\ UNCHANGED <<ws, remote, marker, entry, wr, nputs, committed, restoreVars>>

\* let code = 0; try { code = Number(await readFile(join(td, 'code'), 'utf-8')) } catch (e) {}
ReadCode(e) ==
    IF e.code.present /\ e.code.readable
    THEN StrToNumber(e.code.data)
    ELSE Num(0)

\* The value of getFromLocalDir(task) for hash h when nothing changes the
\* cache root while it runs.
LookupValue(h) ==
    IF marker[h]
    THEN Hit(entry[h].term.data, OutputsPath(h), ReadCode(entry[h]))
    ELSE Null

LookupReadCode ==
    /\ rd.pc = "readCode"
    /\ rd' = AfterLookup(Hit(rd.terminalOutput, OutputsPath(rd.h), ReadCode(entry[rd.h])))
    /\ UNCHANGED <<ws, remote, marker, entry, wr, nputs, committed, restoreVars>>

(***************************************************************************)
(* The remote store: an opaque collaborator.  retrieve(hash, cachePath)    *)
(* may leave the local cache as it is, leave files of an entry without its *)
(* marker, install a complete entry with its marker, or reject.            *)
(***************************************************************************)
\* The entries a remote store holds: results of puts made elsewhere.
RemotePayloads == {Payload(TextArg("remote"), <<P1>>, 0)}

\* What an unfinished download leaves in <h>/.
PartialEntries ==
    {[NoEntry EXCEPT !.exists = TRUE],
     [NoEntry EXCEPT !.exists = TRUE, !.term = TextFile("remote"), !.outputsDir = TRUE]}

\* get goes on after retrieve returned: return this.getFromLocalDir(task)
RetrieveReturned == rd' = [rd EXCEPT !.pc = "exists", !.phase = 2, !.retrieved = "returned"]

RetrieveNothing ==
    /\ rd.pc = "retrieve"
    /\ RetrieveReturned
    /\ UNCHANGED <<ws, remote, marker, entry, wr, nputs, committed, restoreVars>>

RetrievePartial ==
    /\ rd.pc = "retrieve"
    /\ \E e \in PartialEntries :
          entry' = [entry EXCEPT ![rd.h] = e]
    /\ marker' = [marker EXCEPT ![rd.h] = FALSE]
    /\ committed' = [committed EXCEPT ![rd.h] = NoPayload]
    /\ RetrieveReturned
    /\ UNCHANGED <<ws, remote, wr, nputs, restoreVars>>

RetrieveFull ==
    /\ rd.pc = "retrieve"
    /\ \E p \in RemotePayloads :
          /\ entry' = [entry EXCEPT ![rd.h] = CommittedEntry(p)]
          /\ committed' = [committed EXCEPT ![rd.h] = p]
    /\ marker' = [marker EXCEPT ![rd.h] = TRUE]
    /\ RetrieveReturned
    /\ UNCHANGED <<ws, remote, wr, nputs, restoreVars>>

\* await this.options.remoteCache.retrieve(...) rejects: get has no try
\* around it, so get raises
RetrieveReject ==
    /\ rd.pc = "retrieve"
    /\ rd' = [rd EXCEPT !.pc = "raised", !.retrieved = "rejected"]
    /\ UNCHANGED <<ws, remote, marker, entry, wr, nputs, committed, restoreVars>>

GetStep ==
    \/ LookupExists
    \/ LookupReadTerm
    \/ LookupReadCode
    \/ RetrieveNothing
    \/ RetrievePartial
    \/ RetrieveFull
    \/ RetrieveReject

(***************************************************************************)
(* Specifications.                                                         *)
(***************************************************************************)
Texts == {NullArg, TextArg(""), TextArg("hello")}
OutputLists == {<<>>, <<P1>>, <<P1, P2>>}
Codes == {0, 130}

\* Sequential use, one writer: a put runs from its first call to its end,
\* its failure or the termination of the process before the next put or get
\* begins.
SeqPutStart ==
    /\ nputs < MaxPuts
    /\ rd.pc \in {"idle", "done", "raised"}
    /\ rd' = IdleReader
    /\ \E T \in Texts, O \in OutputLists, C \in Codes : PutStart("w1", "h1", T, O, C)

SeqGetStart ==
    /\ wr["w1"].pc = "idle"
    /\ GetStart("h1")

SeqNext ==
    \/ SeqPutStart
    \/ SeqGetStart
    \/ PutStep("w1")
    \/ Kill("w1")
    \/ GetStep

SeqSpec == Init /\ [][SeqNext]_vars

\* Concurrent use: the puts of two processes and a get of a third, on the
\* same hash, with their awaited calls interleaved in any order.
ConcPayload ==
    ("w1" :> Payload(TextArg("hello"), <<P1>>, 0)) @@
    ("w2" :> Payload(TextArg("bye"), <<P1, P2>>, 130))

ConcPutStart ==
    /\ nputs < MaxConcPuts
    /\ UNCHANGED rd
    /\ \E w \in Writers :
          PutStart(w, "h1", ConcPayload[w].T, ConcPayload[w].O, ConcPayload[w].C)

\* the remote store holds no entry for the hash
ConcGetStep ==
    \/ LookupExists
    \/ LookupReadTerm
    \/ LookupReadCode
    \/ RetrieveNothing
    \/ RetrieveReject

Next ==
    \/ ConcPutStart
    \/ GetStart("h1")
    \/ \E w \in Writers : PutStep(w)
    \/ ConcGetStep

Spec == Init /\ [][Next]_vars

(***************************************************************************)
(* Properties of put and get.                                              *)
(***************************************************************************)
PayloadOf(w) == Payload(wr[w].T, wr[w].O, wr[w].C)

\* what get returns for a committed entry written by a put with payload p
HitOf(h, p) == Hit(WrittenText(p.T), OutputsPath(h), Num(p.C))

\* C1: with one writer per hash that may be terminated after any awaited
\* call of put, whenever the marker of h exists the entry directory of h is
\* exactly the complete entry (terminalOutput, outputs/, code) of the put
\* that wrote the marker; so a get between puts returns absent or the result
\* of that put, and raises only when retrieve rejects.
C1_MarkerImpliesCompleteEntry ==
    /\ \A h \in Hashes :
          marker[h] =>
             /\ committed[h] # NoPayload
             /\ entry[h] = CommittedEntry(committed[h])
    /\ (rd.pc = "done" /\ rd.res.hit) =>
          /\ marker[rd.h]
          /\ rd.res = HitOf(rd.h, committed[rd.h])
    /\ rd.pc = "raised" => rd.retrieved = "rejected"

\* the put that was to overwrite a committed entry was terminated, and the
\* get that followed returned a hit without asking the remote store
C1_Witness ==
    /\ nputs = 2
    /\ wr["w1"].out = "killed"
    /\ rd.pc = "done"
    /\ rd.nRetrieve = 0
    /\ rd.res.hit

\* C2: a get that ends while the marker of its hash does not exist returned
\* absent and did not raise, whatever <h>/ holds.
C2_NoMarkerMeansAbsent ==
    (rd.pc \in {"done", "raised"} /\ ~marker[rd.h]) =>
       (rd.pc = "done" /\ rd.res = Null)

\* C3: a get whose lookup found the marker does not raise on a missing file
\* and returns the terminalOutput and code of one put, with the puts of two
\* other processes interleaved with it.
C3_ReadersSeeOnePut ==
    /\ rd.pc = "raised" => rd.retrieved = "rejected"
    /\ (rd.pc = "done" /\ rd.res.hit) =>
          \E w \in Writers : rd.res = HitOf(rd.h, ConcPayload[w])

\* C4: with two puts of the same hash interleaved, whenever the marker
\* exists the entry directory is exactly the complete entry of one of the
\* two writers.
C4_MarkerImpliesOneWritersEntry ==
    \A h \in Hashes :
       marker[h] => \E w \in Writers : entry[h] = CommittedEntry(ConcPayload[w])

\* C5: a get that follows a completed put(h, T, O, C), with nothing on h in
\* between, returns terminalOutput = T, code = C and outputsPath =
\* <h>/outputs, and under outputsPath every declared output that exists in
\* the workspace is present as it is in the workspace.
C5_RoundTrip ==
    (/\ rd.pc = "done"
     /\ wr["w1"].pc = "idle"
     /\ wr["w1"].out = "ok"
     /\ wr["w1"].h = rd.h
     /\ ~wr["w1"].T.isNull) =>
       /\ rd.res.hit
       /\ rd.res.terminalOutput = wr["w1"].T.text
       /\ rd.res.code = Num(wr["w1"].C)
       /\ rd.res.outputsPath = OutputsPath(rd.h)
       /\ entry[rd.h].outputsDir
       /\ \A f \in Range(wr["w1"].O) :
             ws[f].kind # "absent" => entry[rd.h].outputs[f] = ws[f]

\* a get returned after a completed put of a text, a multi-digit code and
\* two declared outputs that exist
C5_Witness ==
    /\ rd.pc = "done"
    /\ wr["w1"].pc = "idle"
    /\ wr["w1"].out = "ok"
    /\ wr["w1"].T = TextArg("hello")
    /\ wr["w1"].C = 130
    /\ wr["w1"].O = <<P1, P2>>
    /\ ws[P1].kind = "file"
    /\ ws[P2].kind = "dir"

\* C6: when a put has completed, whatever an earlier put of the same hash
\* wrote (completed or not), the marker exists, the entry directory holds
\* exactly what this put wrote and nothing else, and a get returns this
\* put's payload.
C6_OverwriteLeavesSecondPayload ==
    (wr["w1"].pc = "idle" /\ wr["w1"].out = "ok") =>
       /\ marker[wr["w1"].h]
       /\ entry[wr["w1"].h] = CommittedEntry(PayloadOf("w1"))
       /\ (rd.pc = "done" /\ rd.h = wr["w1"].h) =>
             rd.res = HitOf(rd.h, PayloadOf("w1"))

\* the second put completed over a terminalOutput, a code and an output path
\* of the first that it does not write itself, and a get returned
C6_Witness ==
    /\ nputs = 2
    /\ wr["w1"].pc = "idle"
    /\ wr["w1"].out = "ok"
    /\ wr["w1"].residue
    /\ rd.pc = "done"

\* C7: while store(h, cachePath) is in progress the marker of h exists and
\* the entry of h is a complete entry, with a second put of the same hash
\* running concurrently.
C7_StoreSeesCommittedEntry ==
    \A w \in Writers :
       wr[w].pc = "store" =>
          /\ marker[wr[w].h]
          /\ \E x \in Writers : entry[wr[w].h] = CommittedEntry(ConcPayload[x])

\* C8: get calls retrieve at most once, and only after a first lookup that
\* missed with a remote store configured; a get that returns made one lookup
\* and returns its value on a hit or without a remote store, and otherwise
\* made exactly one retrieve and one more lookup, whose value (hit or
\* absent) it returns.
C8_RemoteOnlyOnLocalMiss ==
    /\ rd.nRetrieve <= 1
    /\ rd.nLookup <= 2
    /\ rd.nRetrieve = 1 => (remote /\ ~rd.res1.hit /\ rd.nLookup >= 1)
    /\ rd.pc = "done" =>
          /\ rd.res = LookupValue(rd.h)
          /\ IF remote /\ ~rd.res1.hit
             THEN rd.nRetrieve = 1 /\ rd.nLookup = 2 /\ rd.retrieved = "returned"
             ELSE rd.nRetrieve = 0 /\ rd.nLookup = 1 /\ rd.res = rd.res1

\* a get missed, retrieve installed the entry, and the second lookup hit
C8_Witness ==
    /\ rd.pc = "done"
    /\ rd.nRetrieve = 1
    /\ rd.nLookup = 2
    /\ ~rd.res1.hit
    /\ rd.res.hit

\* C9: when retrieve fails, get does not raise: it returns the result of
\* the local lookup.
C9_RetrieveFailureIsSilent ==
    rd.retrieved = "rejected" => (rd.pc = "done" /\ rd.res = LookupValue(rd.h))

(***************************************************************************)
(* shouldCopyOutputsFromCache(taskWithCachedResult, outputs).               *)
(***************************************************************************)
Exists(n) == n.kind # "absent"
IsFile(n) == n.kind = "file"

\* readdir(path) rejects with ENOTDIR unless path is a directory
CanReaddir(n) == n.kind = "dir"
ReaddirLength(n) == Cardinality(n.entries)

\* what is at join(cachedResult.outputsPath, output)
CachedAt(outputsPath, output) == entry[outputsPath[1]].outputs[output]

\* getLatestRecordedHashForTask(output): the record, or null when it cannot
\* be read
LatestRecordedHash(output) == records[RecordName(output)]

\* areLatestOutputsHashesDifferentThanTaskHash(outputs, hash)
AreLatestOutputsHashesDifferent(outputs, hash) ==
    \E i \in 1..Len(outputs) : LatestRecordedHash(outputs[i]) # hash

\* One round of the loop of isAnyOutputMissing on the cached copy c and the
\* workspace copy r of an output: "true" when it returns true, "throws"
\* when an awaited call rejects, "next" when the loop goes on.
OutputCheck(c, r) ==
    IF Exists(c) /\ IsFile(c) /\ Exists(c) /\ ~Exists(r) THEN "true"
    ELSE IF Exists(c) /\ Exists(r) /\ ~CanReaddir(c) THEN "throws"
    ELSE IF Exists(c) /\ Exists(r) /\ ~CanReaddir(r) THEN "throws"
    ELSE LET haveDifferentAmountOfFiles ==
                 Exists(c) /\ Exists(r) /\ ReaddirLength(c) # ReaddirLength(r)
         IN IF (Exists(c) /\ ~Exists(r)) \/ haveDifferentAmountOfFiles
            THEN "true"
            ELSE "next"

\* isAnyOutputMissing(cachedResult, outputs), from the output at index i on
RECURSIVE IsAnyOutputMissingFrom(_, _, _)
IsAnyOutputMissingFrom(outputsPath, outputs, i) ==
    IF i > Len(outputs) THEN "false"
    ELSE LET r == OutputCheck(CachedAt(outputsPath, outputs[i]), ws[outputs[i]])
         IN IF r = "next"
            THEN IsAnyOutputMissingFrom(outputsPath, outputs, i + 1)
            ELSE r

IsAnyOutputMissing(outputsPath, outputs) ==
    IsAnyOutputMissingFrom(outputsPath, outputs, 1)

\* the value of shouldCopyOutputsFromCache: "true", "false", or "throws"
\* when the promise rejects
ShouldCopyOutputsFromCache(hash, outputsPath, outputs) ==
    IF AreLatestOutputsHashesDifferent(outputs, hash)
    THEN "true"
    ELSE IsAnyOutputMissing(outputsPath, outputs)

\* a call for the task of hash h, with the cached result that get(h) returns
ShouldCopy(h, outputs) ==
    /\ sc.pc = "idle"
    /\ sc' = [pc |-> "done", h |-> h, outputs |-> outputs,
              result |-> ShouldCopyOutputsFromCache(h, OutputsPath(h), outputs)]
    /\ UNCHANGED <<ws, remote, marker, entry, wr, rd, nputs, committed, records, cp>>

\* What the outputs may be in the cache and in the workspace when the check
\* is made, and the lists of declared outputs.
CheckNodes == {Absent, File(1), Dir({"x"}), Dir({"x", "y"})}
CheckTrees == {t \in [OutputPaths -> CheckNodes] : t[P2] = Absent}
CheckRecords == [RecordNames -> {NoHash, "h1", "h2"}]
CheckOutputLists == {<<>>, <<P1>>, <<P3>>, <<P1, P3>>, <<P3, P1>>, <<P1, P2>>}

\* a committed entry of h1 with any outputs, any workspace, any records
CheckInit ==
    /\ ws \in CheckTrees
    /\ remote = FALSE
    /\ marker = [h \in Hashes |-> h = "h1"]
    /\ \E t \in CheckTrees :
          entry = [h \in Hashes |->
                     IF h = "h1"
                     THEN [exists |-> TRUE, term |-> TextFile("hello"),
                           outputsDir |-> TRUE, outputs |-> t,
                           code |-> CodeFile(CodeToString(0))]
                     ELSE NoEntry]
    /\ wr = [w \in Writers |-> IdleWriter]
    /\ rd = IdleReader
    /\ nputs = 0
    /\ committed = [h \in Hashes |-> NoPayload]
    /\ records \in CheckRecords
    /\ sc = IdleCheck
    /\ cp = IdleCopy

CheckNext == \E outputs \in CheckOutputLists : ShouldCopy("h1", outputs)

CheckSpec == CheckInit /\ [][CheckNext]_vars

\* (a) of the staleness test: a declared output without a record of the
\* task's hash
SomeRecordDiffers(h, outputs) ==
    \E f \in Range(outputs) : records[RecordName(f)] # h

\* (b) of the staleness test: a declared output cached as a file and missing
\* in the workspace, or a directory on both sides with different numbers of
\* entries
SomeOutputDrifted(h, outputs) ==
    \E f \in Range(outputs) :
       LET c == entry[h].outputs[f]
           r == ws[f]
       IN \/ c.kind = "file" /\ r.kind = "absent"
          \/ /\ c.kind = "dir"
             /\ r.kind = "dir"
             /\ Cardinality(c.entries) # Cardinality(r.entries)

\* C10: shouldCopyOutputsFromCache returns true whenever a declared output
\* has no record of the task's hash, or, with every record equal to the
\* task's hash, a declared output is cached as a file and missing in the
\* workspace or is a directory on both sides with different numbers of
\* entries.
C10_StaleOutputsAreCopied ==
    (/\ sc.pc = "done"
     /\ \/ SomeRecordDiffers(sc.h, sc.outputs)
        \/ SomeOutputDrifted(sc.h, sc.outputs)) =>
       sc.result = "true"

(***************************************************************************)
(* Cache.copyFilesFromCache(hash, cachedResult, outputs), with             *)
(* removeRecordedOutputsHashes and recordOutputsHash, one awaited call at  *)
(* a time.  cachedResult is what get(hash) returned: its outputsPath is    *)
(* <hash>/outputs.                                                         *)
(***************************************************************************)
\* the output the loop of the call is at
CpOutput == cp.outputs[cp.i]

\* the awaited call rejects: copyFilesFromCache raises to its caller
CpRaise == cp' = [cp EXCEPT !.pc = "idle", !.out = "raised", !.at = cp.pc]

\* copyFilesFromCache begins: await this.removeRecordedOutputsHashes(outputs)
CopyStart(h, outputs) ==
    /\ cp.pc = "idle"
    /\ cp' = [IdleCopy EXCEPT !.pc = "unlink", !.h = h, !.outputs = outputs,
                              !.calls = cp.calls + 1, !.first = cp.first]
    /\ UNCHANGED <<ws, remote, marker, entry, wr, rd, nputs, committed, records>>

\* a removeRecordedOutputsHashes that goes through the outputs and leaves
\* their records where they are
CpUnlinkKeeping ==
    /\ cp.pc = "unlink"
    /\ cp' = IF cp.i > Len(cp.outputs)
             THEN [cp EXCEPT !.pc = "exists", !.i = 1]
             ELSE [cp EXCEPT !.i = @ + 1]
    /\ UNCHANGED <<ws, remote, marker, entry, wr, rd, nputs, committed, records, sc>>

\* removeRecordedOutputsHashes: try { await unlink(hashFile) } catch (e) {}
\* for each output; unlink of a missing file rejects with ENOENT, which is
\* caught.  After the last output the loop over the cached outputs begins.
CpUnlink ==
    /\ cp.pc = "unlink"
    /\ IF cp.i > Len(cp.outputs)
       THEN /\ cp' = [cp EXCEPT !.pc = "exists", !.i = 1]
            /\ UNCHANGED records
       ELSE /\ records' = IF records[RecordName(CpOutput)] = NoHash
                          THEN records
                          ELSE [records EXCEPT ![RecordName(CpOutput)] = NoHash]
            /\ cp' = [cp EXCEPT !.i = @ + 1]
    /\ UNCHANGED <<ws, remote, marker, entry, wr, rd, nputs, committed, sc>>

\* unlink of a record that exists rejects (EPERM, EBUSY): caught as well,
\* and the record stays
CpUnlinkFail ==
    /\ cp.pc = "unlink"
    /\ cp.i <= Len(cp.outputs)
    /\ records[RecordName(CpOutput)] # NoHash
    /\ cp' = [cp EXCEPT !.i = @ + 1, !.kept = @ \cup {cp.i}]
    /\ UNCHANGED <<ws, remote, marker, entry, wr, rd, nputs, committed, records, sc>>

\* for (const f of outputs): if (await existsAsync(cached)), with the lstat
\* of cached that follows it; after the last output recordOutputsHash begins
CpExists ==
    /\ cp.pc = "exists"
    /\ IF cp.i > Len(cp.outputs)
       THEN cp' = [cp EXCEPT !.pc = "record", !.i = 1]
       ELSE IF Exists(CachedAt(OutputsPath(cp.h), CpOutput))
            THEN cp' = [cp EXCEPT !.pc = "remove"]
            ELSE cp' = [cp EXCEPT !.i = @ + 1]
    /\ UNCHANGED <<ws, remote, marker, entry, wr, rd, nputs, committed, records, sc>>

\* a call that removes a workspace copy it finds and leaves it at that,
\* copying only where it finds none
CpRemoveOrCopy ==
    /\ cp.pc = "remove"
    /\ ws' = [ws EXCEPT ![CpOutput] = Absent]
    /\ cp' = IF Exists(ws[CpOutput])
             THEN [cp EXCEPT !.pc = "exists", !.i = @ + 1]
             ELSE [cp EXCEPT !.pc = "ensureDir"]
    /\ UNCHANGED <<remote, marker, entry, wr, rd, nputs, committed, records, sc>>

\* a call that copies over the workspace copy as it finds it
CpRemoveSkipped ==
    /\ cp.pc = "remove"
    /\ cp' = [cp EXCEPT !.pc = "ensureDir"]
    /\ UNCHANGED <<ws, remote, marker, entry, wr, rd, nputs, committed, records, sc>>

\* await remove(src)
CpRemove ==
    /\ cp.pc = "remove"
    /\ ws' = [ws EXCEPT ![CpOutput] = Absent]
    /\ cp' = [cp EXCEPT !.pc = "ensureDir"]
    /\ UNCHANGED <<remote, marker, entry, wr, rd, nputs, committed, records, sc>>

\* await ensureDir(directory): the parent of src when cached is a file, src
\* itself when cached is a directory
CpEnsureDir ==
    /\ cp.pc = "ensureDir"
    /\ LET isFile == IsFile(CachedAt(OutputsPath(cp.h), CpOutput))
       IN IF isFile \/ ws[CpOutput].kind # "file"
          THEN /\ ws' = [ws EXCEPT ![CpOutput] =
                            IF ~isFile /\ @.kind = "absent" THEN Dir({}) ELSE @]
               /\ cp' = [cp EXCEPT !.pc = "copy"]
          ELSE /\ CpRaise
               /\ UNCHANGED ws
    /\ UNCHANGED <<remote, marker, entry, wr, rd, nputs, committed, records, sc>>

\* await copy(cached, src)
CpCopy ==
    /\ cp.pc = "copy"
    /\ LET cached == CachedAt(OutputsPath(cp.h), CpOutput)
       IN IF CanCopyNode(ws[CpOutput], cached)
          THEN /\ ws' = [ws EXCEPT ![CpOutput] = CopyNode(@, cached)]
               /\ cp' = [cp EXCEPT !.pc = "exists", !.i = @ + 1]
          ELSE /\ CpRaise
               /\ UNCHANGED ws
    /\ UNCHANGED <<remote, marker, entry, wr, rd, nputs, committed, records, sc>>

\* a recordOutputsHash without the try: a failed write raises
CpRecordFailRaising ==
    /\ cp.pc = "record"
    /\ cp.i <= Len(cp.outputs)
    /\ CpRaise
    /\ UNCHANGED <<ws, remote, marker, entry, wr, rd, nputs, committed, records, sc>>

\* recordOutputsHash: ensureDir(dirname(hashFile)) or writeFile(hashFile,
\* hash) rejects; the error is caught and the loop goes on
CpRecordFail ==
    /\ cp.pc = "record"
    /\ cp.i <= Len(cp.outputs)
    /\ cp' = [cp EXCEPT !.i = @ + 1, !.failed = @ \cup {cp.i}]
    /\ UNCHANGED <<ws, remote, marker, entry, wr, rd, nputs, committed, records, sc>>

\* recordOutputsHash: try { await ensureDir(dirname(hashFile)); await
\* writeFile(hashFile, hash) } catch {} for each output; after the last one
\* copyFilesFromCache returns
CpRecord ==
    /\ cp.pc = "record"
    /\ IF cp.i > Len(cp.outputs)
       THEN /\ cp' = [cp EXCEPT !.pc = "idle", !.out = "ok",
                                !.first = IF cp.calls = 1
                                          THEN <<ws, records, cp.failed>>
                                          ELSE @]
            /\ UNCHANGED records
       ELSE /\ records' = [records EXCEPT ![RecordName(CpOutput)] = cp.h]
            /\ cp' = [cp EXCEPT !.i = @ + 1,
                                !.wrote = @ \cup {RecordName(CpOutput)}]
    /\ UNCHANGED <<ws, remote, marker, entry, wr, rd, nputs, committed, sc>>

\* an awaited call on the cached or the workspace copy rejects with an I/O
\* error, which copyFilesFromCache does not catch
CpFail ==
    /\ cp.pc \in {"exists", "remove", "ensureDir", "copy"}
    /\ cp.i <= Len(cp.outputs)
    /\ CpRaise
    /\ UNCHANGED <<ws, remote, marker, entry, wr, rd, nputs, committed, records, sc>>

\* the process is terminated between two awaited calls
CpKill ==
    /\ cp.pc # "idle"
    /\ cp' = [cp EXCEPT !.pc = "idle", !.out = "killed", !.at = cp.pc]
    /\ UNCHANGED <<ws, remote, marker, entry, wr, rd, nputs, committed, records, sc>>

CpStep ==
    \/ CpUnlink
    \/ CpUnlinkFail
    \/ CpExists
    \/ CpRemove
    \/ CpEnsureDir
    \/ CpCopy
    \/ CpRecord
    \/ CpRecordFail
    \/ CpFail

(***************************************************************************)
(* Restoring the outputs of a cached task: copyFilesFromCache, once or     *)
(* again with the same arguments, run to its end, failed or interrupted,   *)
(* and then one shouldCopyOutputsFromCache with the same arguments.        *)
(***************************************************************************)
MaxCopies == 2

RestoreWsNodes == {Absent, File(2), Dir({"x", "y"})}
RestoreCachedNodes == {Absent, File(1), Dir({"x"})}
RestoreOutputLists == {<<>>, <<P1>>, <<P3>>, <<P1, P3>>, <<P1, P2>>}

RestoreInit ==
    /\ ws \in {t \in [OutputPaths -> RestoreWsNodes] : t[P2] = Absent}
    /\ remote = FALSE
    /\ marker = [h \in Hashes |-> h = "h1"]
    /\ \E t \in {u \in [OutputPaths -> RestoreCachedNodes] : u[P2] = Absent} :
          entry = [h \in Hashes |->
                     IF h = "h1"
                     THEN [exists |-> TRUE, term |-> TextFile("hello"),
                           outputsDir |-> TRUE, outputs |-> t,
                           code |-> CodeFile(CodeToString(0))]
                     ELSE NoEntry]
    /\ wr = [w \in Writers |-> IdleWriter]
    /\ rd = IdleReader
    /\ nputs = 0
    /\ committed = [h \in Hashes |-> NoPayload]
    /\ records \in CheckRecords
    /\ sc = IdleCheck
    /\ cp = IdleCopy

RestoreStart ==
    /\ cp.calls = 0
    /\ UNCHANGED sc
    /\ \E outputs \in RestoreOutputLists : CopyStart("h1", outputs)

RestoreAgain ==
    /\ cp.out = "ok"
    /\ cp.calls < MaxCopies
    /\ sc' = IdleCheck
    /\ CopyStart(cp.h, cp.outputs)

RestoreCheck ==
    /\ cp.pc = "idle"
    /\ cp.out \in {"ok", "killed"}
    /\ ShouldCopy(cp.h, cp.outputs)

RestoreNext ==
    \/ RestoreStart
    \/ RestoreAgain
    \/ CpStep
    \/ CpKill
    \/ RestoreCheck

RestoreSpec == RestoreInit /\ [][RestoreNext]_vars

\* the loop over the cached outputs, between removeRecordedOutputsHashes and
\* recordOutputsHash
CopyingPcs == {"exists", "remove", "ensureDir", "copy"}

\* every declared output that the cache holds is in the workspace as the
\* cache holds it
AllCopied ==
    \A f \in Range(cp.outputs) :
       Exists(CachedAt(OutputsPath(cp.h), f)) =>
          ws[f] = CachedAt(OutputsPath(cp.h), f)

\* a declared output has a record of the call's hash that the call did not
\* write
SomeRecordLeftFromBefore ==
    \E f \in Range(cp.outputs) :
       LatestRecordedHash(f) = cp.h /\ RecordName(f) \notin cp.wrote

C12_RestoredOutputsEqualCached ==
    (cp.pc = "idle" /\ cp.out = "ok") =>
       \A f \in Range(cp.outputs) :
          LET cached == CachedAt(OutputsPath(cp.h), f)
          IN Exists(cached) =>
                /\ ws[f].kind = cached.kind
                /\ ws[f].content = cached.content
                /\ ws[f].entries = cached.entries

\* a completed call that restored a directory and a file; no workspace
\* starts with either as the cache holds it
C12_Witness ==
    /\ cp.pc = "idle"
    /\ cp.out = "ok"
    /\ cp.calls = 1
    /\ cp.outputs = <<P1, P3>>
    /\ CachedAt(OutputsPath(cp.h), P1).kind = "dir"
    /\ CachedAt(OutputsPath(cp.h), P3).kind = "file"
    /\ ws[P1] = CachedAt(OutputsPath(cp.h), P1)
    /\ ws[P3] = CachedAt(OutputsPath(cp.h), P3)

\* C13: copyFilesFromCache(H, r, outputs) called again with the same
\* arguments, no record write failing in either call, leaves the workspace
\* and the hash records as the first call left them.
C13_CopyTwiceIsCopyOnce ==
    (/\ cp.pc = "idle"
     /\ cp.out = "ok"
     /\ cp.calls >= 2
     /\ cp.failed = {}
     /\ cp.first[3] = {}) =>
       /\ ws = cp.first[1]
       /\ records = cp.first[2]

\* the second call has completed, after removing and copying a directory
\* and a file again and deleting and writing their records again
C13_Witness ==
    /\ cp.pc = "idle"
    /\ cp.out = "ok"
    /\ cp.calls = 2
    /\ cp.failed = {}
    /\ cp.first[3] = {}
    /\ cp.outputs = <<P1, P3>>
    /\ CachedAt(OutputsPath(cp.h), P1).kind = "dir"
    /\ CachedAt(OutputsPath(cp.h), P3).kind = "file"
    /\ cp.wrote = {RecordName(P1), RecordName(P3)}

(***************************************************************************)
(* Lookups of a committed entry whose code file is whatever a file can be: *)
(* missing, unreadable, or holding a string that is or is not a decimal    *)
(* integer.                                                                *)
(***************************************************************************)
CodeFiles ==
    {NoCodeFile, UnreadableCodeFile, CodeFile(<<>>), CodeFile(<<"0">>),
     CodeFile(<<"1", "3", "0">>), CodeFile(<<"-", "1">>), CodeFile(<<"a">>),
     CodeFile(<<"1", "x">>)}

CodeInit ==
    /\ ws \in Workspaces
    /\ remote \in BOOLEAN
    /\ marker = [h \in Hashes |-> h = "h1"]
    /\ \E c \in CodeFiles, t \in {"", "hello"} :
          entry = [h \in Hashes |->
                     IF h = "h1"
                     THEN [exists |-> TRUE, term |-> TextFile(t),
                           outputsDir |-> TRUE, outputs |-> NoOutputs,
                           code |-> c]
                     ELSE NoEntry]
    /\ wr = [w \in Writers |-> IdleWriter]
    /\ rd = IdleReader
    /\ nputs = 0
    /\ committed = [h \in Hashes |-> NoPayload]
    /\ records = NoRecords
    /\ sc = IdleCheck
    /\ cp = IdleCopy

CodeNext ==
    \/ GetStart("h1")
    \/ LookupExists
    \/ LookupReadTerm
    \/ LookupReadCode

CodeSpec == CodeInit /\ [][CodeNext]_vars

\* whether the string is a decimal integer: digits, with or without a sign
\* before them
IsDecimalInteger(s) ==
    \/ AllDigits(s)
    \/ Len(s) > 1 /\ s[1] = "-" /\ AllDigits(Tail(s))

\* the integer a decimal integer stands for
DecimalValue(s) ==
    IF s[1] = "-" THEN 0 - DigitsValue(Tail(s)) ELSE DigitsValue(s)

\* C14: get(H) on a committed entry is a hit whose code is 0 when the code
\* file is absent, unreadable or not a decimal integer, and the stored
\* integer otherwise; it never raises and never misses for the code file.
C14_BadCodeFileReadsAsZero ==
    (marker[rd.h] /\ rd.pc \in {"done", "raised"}) =>
       /\ rd.pc = "done"
       /\ rd.res.hit
       /\ LET c == entry[rd.h].code
          IN rd.res.code =
                IF c.present /\ c.readable /\ IsDecimalInteger(c.data)
                THEN Num(DecimalValue(c.data))
                ELSE Num(0)

\* C15: put with a declared output that does not exist in the workspace
\* makes no call for that path, and when it completes the marker is written
\* and outputs/ holds the declared outputs that exist, as the workspace
\* holds them, and nothing at any other path.
C15_MissingOutputIsSkipped ==
    \A w \in Writers :
       LET missing == {f \in Range(wr[w].O) : ~Exists(ws[f])}
       IN /\ wr[w].pc \in {"ensureDir", "copy"} => wr[w].O[wr[w].i] \notin missing
          /\ (wr[w].pc = "idle" /\ wr[w].out = "ok" /\ missing # {}) =>
                /\ marker[wr[w].h]
                /\ \A f \in OutputPaths :
                      entry[wr[w].h].outputs[f] =
                         IF f \in Range(wr[w].O) \ missing THEN ws[f] ELSE Absent

\* a completed put of two declared outputs, one of them missing in the
\* workspace and one copied
C15_Witness ==
    /\ wr["w1"].pc = "idle"
    /\ wr["w1"].out = "ok"
    /\ wr["w1"].O = <<P1, P2>>
    /\ \E f \in {P1, P2}, g \in {P1, P2} :
          /\ ~Exists(ws[f])
          /\ Exists(ws[g])
          /\ entry[wr["w1"].h].outputs[g] = ws[g]
          /\ ~Exists(entry[wr["w1"].h].outputs[f])
    /\ marker[wr["w1"].h]

\* a put of w raised at an awaited call before remoteCache.store, and no
\* get was made since
FailedBeforeStore(w) ==
    /\ wr[w].pc = "idle"
    /\ wr[w].out = "raised"
    /\ wr[w].at # "store"
    /\ rd.pc = "idle"

\* C16 as stated: when an awaited filesystem call of put(H, ...) up to the
\* marker write fails, the commit marker of H does not exist afterwards and
\* store was not called.
C16_FailedPutLeavesNoMarker ==
    \A w \in Writers :
       FailedBeforeStore(w) => ~marker[wr[w].h] /\ ~wr[w].stored

\* C16, amended: when an awaited filesystem call of put(H, ...) up to the
\* marker write fails, put raises, store was not called, and the commit
\* marker of H does not exist afterwards unless the call that failed is the
\* removal of the marker itself.
C16_FailedPutLeavesNoNewMarker ==
    \A w \in Writers :
       FailedBeforeStore(w) =>
          /\ ~wr[w].stored
          /\ wr[w].at # "rmCommit" => ~marker[wr[w].h]

\* a put over a committed entry raised at the copy of an output, with a
\* remote cache configured
C16_Witness ==
    /\ FailedBeforeStore("w1")
    /\ wr["w1"].at = "copy"
    /\ nputs = 2
    /\ remote
    /\ ~marker[wr["w1"].h]
    /\ entry[wr["w1"].h].term.present

\* C17: a failure to write the record of one output does not make
\* copyFilesFromCache (recordOutputsHash) raise, and every output whose
\* write did not fail has a record of the call's hash when the call
\* completes; removeRecordedOutputsHashes does not raise either, on a missing
\* record or a failed unlink, and when it has returned every output whose
\* unlink did not fail has no record.
C17_RecordsAreBestEffort ==
    /\ cp.out = "raised" => cp.at \in CopyingPcs
    /\ (cp.pc = "idle" /\ cp.out = "ok") =>
          \A i \in (1..Len(cp.outputs)) \ cp.failed :
             LatestRecordedHash(cp.outputs[i]) = cp.h
    /\ cp.pc \in CopyingPcs =>
          \A i \in (1..Len(cp.outputs)) \ cp.kept :
             LatestRecordedHash(cp.outputs[i]) = NoHash

\* a completed call on two outputs whose first record write failed and
\* whose second one was made
C17_Witness ==
    /\ cp.pc = "idle"
    /\ cp.out = "ok"
    /\ Len(cp.outputs) = 2
    /\ cp.failed = {1}
    /\ LatestRecordedHash(cp.outputs[1]) = NoHash
    /\ LatestRecordedHash(cp.outputs[2]) = cp.h

\* C18: after copyFilesFromCache(H, r, outputs) completes, every record
\* written, shouldCopyOutputsFromCache for H, r and the same outputs returns
\* false, whether the outputs are cached as files or as directories.
C18_RestoredOutputsNeedNoCopy ==
    (/\ cp.pc = "idle"
     /\ cp.out = "ok"
     /\ cp.failed = {}
     /\ sc.pc = "done") =>
       sc.result = "false"

\* C19: the records of two different output paths are independent: a step
\* of copyFilesFromCache (removeRecordedOutputsHashes, recordOutputsHash)
\* leaves the recorded hash of every output path that is not among its
\* outputs as it is.
C19_RecordsOfOtherOutputsUnchanged ==
    [][\A q \in OutputPaths :
          q \notin Range(cp.outputs) =>
             LatestRecordedHash(q)' = LatestRecordedHash(q)]_vars

(***************************************************************************)
(* Two hashes: the puts of two processes, each on its own hash, and one    *)
(* get on either hash, with their awaited calls interleaved in any order.  *)
(***************************************************************************)
HashOf == ("w1" :> "h1") @@ ("w2" :> "h2")

FramePutStart ==
    /\ nputs < MaxConcPuts
    /\ UNCHANGED rd
    /\ \E w \in Writers :
          PutStart(w, HashOf[w], ConcPayload[w].T, ConcPayload[w].O, ConcPayload[w].C)

FrameGetStart ==
    /\ rd.pc = "idle"
    /\ \E h \in Hashes : GetStart(h)

FrameNext ==
    \/ FramePutStart
    \/ FrameGetStart
    \/ \E w \in Writers : PutStep(w)
    \/ GetStep

FrameSpec == Init /\ [][FrameNext]_vars

\* the step is one of a put or of the get on hash h
StepOn(h) ==
    \/ \E w \in Writers : wr'[w] # wr[w] /\ wr[w].h = h /\ wr'[w].h = h
    \/ rd' # rd /\ rd'.h = h

\* C20: every step of a put or a get on one hash leaves the commit marker
\* and the entry directory of every other hash unchanged; so a put that
\* completes while puts and gets on another hash go on, and no get on its
\* own hash, ends with the marker and its own complete entry.
C20_OtherHashesUntouched ==
    /\ [][\A h \in Hashes :
             (marker'[h] # marker[h] \/ entry'[h] # entry[h]) => StepOn(h)]_vars
    /\ [](\A w \in Writers :
             (/\ wr[w].pc = "idle"
              /\ wr[w].out = "ok"
              /\ rd.pc = "idle" \/ rd.h # wr[w].h) =>
                /\ marker[wr[w].h]
                /\ entry[wr[w].h] = CommittedEntry(PayloadOf(w)))

\* both puts have completed, each with its own committed entry under its
\* own hash, after a get on one of the hashes brought an entry from the
\* remote store
C20_Witness ==
    /\ wr["w1"].pc = "idle" /\ wr["w1"].out = "ok" /\ wr["w1"].h = "h1"
    /\ wr["w2"].pc = "idle" /\ wr["w2"].out = "ok" /\ wr["w2"].h = "h2"
    /\ entry["h1"] = CommittedEntry(PayloadOf("w1"))
    /\ entry["h2"] # entry["h1"]
    /\ marker["h1"] /\ marker["h2"]
    /\ rd.h = "h2"
    /\ rd.retrieved = "returned"

=============================================================================
